---- MODULE Spec2Model ----
(***************************************************************************)
(* FreshCast AI: the query router (src/src/router.py) and the inventory /  *)
(* raw-material aggregation of the forecaster                              *)
(* (src/src/forecasting/model.py).                                         *)
(*                                                                         *)
(* Strings are TLA+ strings; the string functions of the code (lower,      *)
(* title, replace, the `in` substring test, the regular expressions, int)  *)
(* are computed character by character.  Confidences are percentages       *)
(* (0.9 is 90).  Forecast values are exact multiples of 1/Scale and        *)
(* material quantities are hundredths of a kilogram.                       *)
(***************************************************************************)
EXTENDS Integers, Sequences, FiniteSets, TLC

VARIABLES
    ml_keywords,    \* QueryRouter.ml_keywords
    llm_keywords,   \* QueryRouter.llm_keywords
    products,       \* QueryRouter.products
    query,          \* the string the router is called with
    op,             \* the router method that ran last ("none" before any call)
    result,         \* what that call returned
    models,         \* FreshCastForecaster.models: the keys, in insertion order
    trained,        \* FreshCastForecaster.trained
    fop,            \* the forecaster method that ran last ("idle" between calls)
    fargs,          \* its arguments
    fres,           \* what it returned, or the error it raised
    client,         \* FreshCastLLM.client
    lres,           \* what the last FreshCastLLM.query call returned
    api,            \* what the last ask_question call answered
    threads         \* the concurrent calls: each thread's call, position,
                    \* local values and result

routerVars == <<ml_keywords, llm_keywords, products>>
callVars == <<query, op, result>>
forecasterVars == <<models, trained, fop, fargs, fres>>
serviceVars == <<client, lres, api, threads>>
vars == <<ml_keywords, llm_keywords, products, query, op, result,
          models, trained, fop, fargs, fres, client, lres, api, threads>>

-----------------------------------------------------------------------------
(* Bounds of the model *)

\* a query is made of at most MaxWords phrases
MaxWords == 2
\* at most MaxModels products have a model
MaxModels == 2
\* forecasts reach at most MaxDays days ahead
MaxDays == 2

-----------------------------------------------------------------------------
(* Character and string functions of Python that the code relies on *)

UpperChars == "ABCDEFGHIJKLMNOPQRSTUVWXYZ"
LowerChars == "abcdefghijklmnopqrstuvwxyz"
DigitChars == "0123456789"

CharAt(s, i) == SubSeq(s, i, i)

IndexIn(alphabet, c) ==
    IF \E i \in 1..Len(alphabet) : CharAt(alphabet, i) = c
    THEN CHOOSE i \in 1..Len(alphabet) : CharAt(alphabet, i) = c
    ELSE 0

IsLetter(c) == IndexIn(UpperChars, c) > 0 \/ IndexIn(LowerChars, c) > 0
IsDigit(c) == IndexIn(DigitChars, c) > 0
\* the characters the pattern \s matches, of those a query is made of
IsSpace(c) == c \in {" ", "\n", "\t"}

LowerChar(c) ==
    LET i == IndexIn(UpperChars, c) IN IF i > 0 THEN CharAt(LowerChars, i) ELSE c
UpperChar(c) ==
    LET i == IndexIn(LowerChars, c) IN IF i > 0 THEN CharAt(UpperChars, i) ELSE c

RECURSIVE Lower(_)
\* str.lower()
Lower(s) ==
    IF s = "" THEN ""
    ELSE LowerChar(CharAt(s, 1)) \o Lower(SubSeq(s, 2, Len(s)))

RECURSIVE TitleFrom(_, _)
\* str.title() from position i on: a letter that follows a non-letter is
\* upper-cased, every other letter is lower-cased
TitleFrom(s, i) ==
    IF i > Len(s) THEN ""
    ELSE (IF i = 1 \/ ~IsLetter(CharAt(s, i - 1))
          THEN UpperChar(CharAt(s, i))
          ELSE LowerChar(CharAt(s, i))) \o TitleFrom(s, i + 1)

Title(s) == TitleFrom(s, 1)

RECURSIVE ReplaceChar(_, _, _)
\* str.replace(a, b) for a single character a
ReplaceChar(s, a, b) ==
    IF s = "" THEN ""
    ELSE (IF CharAt(s, 1) = a THEN b ELSE CharAt(s, 1))
         \o ReplaceChar(SubSeq(s, 2, Len(s)), a, b)

\* w occurs in s at position i
MatchAt(s, w, i) ==
    /\ i >= 1
    /\ i + Len(w) - 1 <= Len(s)
    /\ SubSeq(s, i, i + Len(w) - 1) = w

\* the `in` operator on strings
Contains(s, w) == \E i \in 1..(Len(s) - Len(w) + 1) : MatchAt(s, w, i)

\* str.startswith
StartsWith(s, w) == MatchAt(s, w, 1)

\* the positions right after an occurrence of one of the words
EndsOf(s, words) ==
    UNION { { i + Len(w) : w \in {x \in words : MatchAt(s, x, i)} } : i \in 1..Len(s) }

\* the pattern . does not match a newline: s[a..b] holds none
NoNewline(s, a, b) == \A k \in a..b : CharAt(s, k) # "\n"

\* the positions a match of  .*(w1|w2|...)  can end at when it starts at one
\* of the positions of `starts`
AfterDotStar(s, starts, words) ==
    UNION { { j + Len(w) : w \in {x \in words : MatchAt(s, x, j)} } :
            j \in {k \in 1..Len(s) : \E p \in starts : p <= k /\ NoNewline(s, p, k - 1)} }

RECURSIVE DigitRunEnd(_, _)
\* the last position of the run of digits that starts at position i
DigitRunEnd(s, i) ==
    IF i + 1 <= Len(s) /\ IsDigit(CharAt(s, i + 1)) THEN DigitRunEnd(s, i + 1) ELSE i

RECURSIVE SkipSpace(_, _)
\* the first position at or after i that holds no white space
SkipSpace(s, i) ==
    IF i <= Len(s) /\ IsSpace(CharAt(s, i)) THEN SkipSpace(s, i + 1) ELSE i

RECURSIVE ParseInt(_, _, _)
\* int() of the digits s[i..j]
ParseInt(s, i, j) ==
    IF j < i THEN 0
    ELSE 10 * ParseInt(s, i, j - 1) + (IndexIn(DigitChars, CharAt(s, j)) - 1)

-----------------------------------------------------------------------------
(* QueryType *)

FORECAST_DEMAND == "forecast_demand"
INVENTORY_NEEDS == "inventory_needs"
RAW_MATERIALS == "raw_materials"
BUSINESS_ADVICE == "business_advice"
SUPPLIER_INFO == "supplier_info"
GENERAL_QUESTION == "general_question"

QueryType == {FORECAST_DEMAND, INVENTORY_NEEDS, RAW_MATERIALS,
              BUSINESS_ADVICE, SUPPLIER_INFO, GENERAL_QUESTION}

\* Python's None
None == "<None>"

-----------------------------------------------------------------------------
(* QueryRouter.__init__ *)

MlKeywordsInit ==
    [forecast  |-> <<"forecast", "predict", "prediction", "expect", "anticipated">>,
     demand    |-> <<"demand", "need", "sales", "sell", "sold">>,
     inventory |-> <<"inventory", "stock", "produce", "production", "make", "bake">>,
     materials |-> <<"material", "ingredient", "flour", "eggs", "butter", "sugar">>,
     quantity  |-> <<"how many", "how much", "quantity", "amount">>,
     time      |-> <<"today", "tomorrow", "next week", "this week", "next", "week", "day">>]

LlmKeywordsInit ==
    [supplier |-> <<"supplier", "buy", "purchase", "vendor", "where", "cheap", "price">>,
     advice   |-> <<"should i", "recommend", "suggest", "advice", "tips", "help", "how to">>,
     quality  |-> <<"quality", "fresh", "store", "storage", "shelf life">>,
     recipe   |-> <<"recipe", "substitute", "alternative", "replace">>]

ProductsInit ==
    <<"croissant", "baguette", "sourdough", "sandwich",
      "donut", "muffin", "cinnamon roll", "cinnamon_roll">>

-----------------------------------------------------------------------------
(* QueryRouter.classify_query *)

\* the score with a break after the first hit of a category
KeywordScore_perCategory(table, query_lower) ==
    Cardinality({c \in DOMAIN table :
                    \E k \in 1..Len(table[c]) : Contains(query_lower, table[c][k])})

\* the number of keywords of the table that occur in the lower-cased query,
\* one hit per entry of each category's list
KeywordScore(table, query_lower) ==
    LET Hits(keywords) ==
            Cardinality({k \in 1..Len(keywords) : Contains(query_lower, keywords[k])})
        RECURSIVE Sum(_)
        Sum(cats) == IF cats = {} THEN 0
                     ELSE LET c == CHOOSE x \in cats : TRUE
                          IN Hits(table[c]) + Sum(cats \ {c})
    IN Sum(DOMAIN table)

\* Pattern 1 without its product names: how (many|much)
Pattern1_noProduct(query_lower) ==
    EndsOf(query_lower, {"how many", "how much"}) # {}

\* Pattern 1: how (many|much).*?(croissant|baguette|sourdough|sandwich|donut|muffin)
Pattern1(query_lower) ==
    AfterDotStar(query_lower, EndsOf(query_lower, {"how many", "how much"}),
                 {"croissant", "baguette", "sourdough", "sandwich", "donut", "muffin"})
        # {}

\* Pattern 2 without the closing "need": what.*(do|should).*(we|i)
Pattern2_noNeed(query_lower) ==
    AfterDotStar(query_lower,
        AfterDotStar(query_lower, EndsOf(query_lower, {"what"}), {"do", "should"}),
        {"we", "i"}) # {}

\* Pattern 2: what.*(do|should).*(we|i).*need
Pattern2(query_lower) ==
    AfterDotStar(query_lower,
        AfterDotStar(query_lower,
            AfterDotStar(query_lower, EndsOf(query_lower, {"what"}), {"do", "should"}),
            {"we", "i"}),
        {"need"}) # {}

\* the word test inside pattern 2
Pattern2Materials(query_lower) ==
    \E word \in {"ingredient", "material", "flour", "eggs"} : Contains(query_lower, word)

\* Pattern 3 without the word "production"
Pattern3_noProduction(query_lower) ==
    \E word \in {"inventory", "stock"} : Contains(query_lower, word)

\* Pattern 3: production / inventory / stock
Pattern3(query_lower) ==
    \E word \in {"production", "inventory", "stock"} : Contains(query_lower, word)

\* Pattern 4: where.*(buy|find|purchase|get)
Pattern4(query_lower) ==
    AfterDotStar(query_lower, EndsOf(query_lower, {"where"}),
                 {"buy", "find", "purchase", "get"}) # {}

\* Pattern 5: "should i" at the start, or "recommend" anywhere
Pattern5(query_lower) ==
    StartsWith(query_lower, "should i") \/ Contains(query_lower, "recommend")

\* the default decision with >= for >: a tie goes to the forecasting engine
ScoreDecision_tieToMl(ml_score, llm_score) ==
    IF ml_score >= llm_score THEN <<FORECAST_DEMAND, 60>>
    ELSE <<BUSINESS_ADVICE, 60>>

\* the default decision with 0.6 for every outcome
ScoreDecision_flatConfidence(ml_score, llm_score) ==
    IF ml_score > llm_score THEN <<FORECAST_DEMAND, 60>>
    ELSE IF llm_score > ml_score THEN <<BUSINESS_ADVICE, 60>>
    ELSE <<GENERAL_QUESTION, 60>>

\* the default decision on the two scores
ScoreDecision(ml_score, llm_score) ==
    IF ml_score > llm_score THEN <<FORECAST_DEMAND, 60>>
    ELSE IF llm_score > ml_score THEN <<BUSINESS_ADVICE, 60>>
    ELSE <<GENERAL_QUESTION, 50>>

\* classify_query with the "should i" check moved before the production check
classify_query_adviceFirst(q) ==
    LET query_lower == Lower(q)
        ml_score == KeywordScore(ml_keywords, query_lower)
        llm_score == KeywordScore(llm_keywords, query_lower)
    IN  IF Pattern1(query_lower) THEN <<FORECAST_DEMAND, 90>>
        ELSE IF Pattern2(query_lower)
             THEN IF Pattern2Materials(query_lower)
                  THEN <<RAW_MATERIALS, 85>>
                  ELSE <<INVENTORY_NEEDS, 85>>
        ELSE IF Pattern5(query_lower) THEN <<BUSINESS_ADVICE, 85>>
        ELSE IF Pattern3(query_lower) THEN <<INVENTORY_NEEDS, 80>>
        ELSE IF Pattern4(query_lower) THEN <<SUPPLIER_INFO, 90>>
        ELSE ScoreDecision(ml_score, llm_score)

classify_query(q) ==
    LET query_lower == Lower(q)
        ml_score == KeywordScore(ml_keywords, query_lower)
        llm_score == KeywordScore(llm_keywords, query_lower)
    IN  IF Pattern1(query_lower) THEN <<FORECAST_DEMAND, 90>>
        ELSE IF Pattern2(query_lower)
             THEN IF Pattern2Materials(query_lower)
                  THEN <<RAW_MATERIALS, 85>>
                  ELSE <<INVENTORY_NEEDS, 85>>
        ELSE IF Pattern3(query_lower) THEN <<INVENTORY_NEEDS, 80>>
        ELSE IF Pattern4(query_lower) THEN <<SUPPLIER_INFO, 90>>
        ELSE IF Pattern5(query_lower) THEN <<BUSINESS_ADVICE, 85>>
        ELSE ScoreDecision(ml_score, llm_score)

-----------------------------------------------------------------------------
(* QueryRouter.extract_product *)

\* the normalization without the first replace: product.title()
NormalizeProduct_keepsSpace(product) == Title(product)

\* product.replace(' ', '_').title().replace('_', '_')
NormalizeProduct(product) ==
    ReplaceChar(Title(ReplaceChar(product, " ", "_")), "_", "_")

extract_product(q) ==
    LET query_lower == Lower(q)
        found == {k \in 1..Len(products) : Contains(query_lower, products[k])}
    IN  IF found = {} THEN None
        ELSE NormalizeProduct(products[CHOOSE k \in found : \A m \in found : k <= m])

-----------------------------------------------------------------------------
(* QueryRouter.extract_time_period *)

\* re.search(r'(\d+)\s*(day|week|month)'): the start positions of a match
NumberUnitStarts(query_lower) ==
    { i \in 1..Len(query_lower) :
        /\ IsDigit(CharAt(query_lower, i))
        /\ \E unit \in {"day", "week", "month"} :
              MatchAt(query_lower, unit,
                      SkipSpace(query_lower, DigitRunEnd(query_lower, i) + 1)) }

\* the value computed from the leftmost match
NumberUnitDays(query_lower) ==
    LET starts == NumberUnitStarts(query_lower)
        i == CHOOSE k \in starts : \A m \in starts : k <= m
        e == DigitRunEnd(query_lower, i)
        u == SkipSpace(query_lower, e + 1)
        num == ParseInt(query_lower, i, e)
    IN  IF MatchAt(query_lower, "day", u) THEN num
        ELSE IF MatchAt(query_lower, "week", u) THEN num * 7
        ELSE num * 30

\* extract_time_period with the number pattern tried before the phrases
extract_time_period_numberFirst(q) ==
    LET query_lower == Lower(q)
    IN  IF NumberUnitStarts(query_lower) # {} THEN NumberUnitDays(query_lower)
        ELSE IF Contains(query_lower, "today") THEN 1
        ELSE IF Contains(query_lower, "tomorrow") THEN 1
        ELSE IF Contains(query_lower, "next week") \/ Contains(query_lower, "this week")
             THEN 7
        ELSE IF Contains(query_lower, "next month") THEN 30
        ELSE 7

extract_time_period(q) ==
    LET query_lower == Lower(q)
    IN  IF Contains(query_lower, "today") THEN 1
        ELSE IF Contains(query_lower, "tomorrow") THEN 1
        ELSE IF Contains(query_lower, "next week") \/ Contains(query_lower, "this week")
             THEN 7
        ELSE IF Contains(query_lower, "next month") THEN 30
        ELSE IF NumberUnitStarts(query_lower) # {} THEN NumberUnitDays(query_lower)
        ELSE 7

-----------------------------------------------------------------------------
(* QueryRouter.route *)

\* UseMl with GENERAL_QUESTION added to the list
UseMl_alsoGeneral(query_type) ==
    query_type \in {FORECAST_DEMAND, INVENTORY_NEEDS, RAW_MATERIALS, GENERAL_QUESTION}

UseMl(query_type) == query_type \in {FORECAST_DEMAND, INVENTORY_NEEDS, RAW_MATERIALS}

\* UseLlm with GENERAL_QUESTION left out of the list
UseLlm_dropsGeneral(query_type) == query_type \in {BUSINESS_ADVICE, SUPPLIER_INFO}

UseLlm(query_type) == query_type \in {BUSINESS_ADVICE, SUPPLIER_INFO, GENERAL_QUESTION}

route(q) ==
    LET c == classify_query(q)
    IN  [query_type     |-> c[1],
         confidence     |-> c[2],
         product        |-> extract_product(q),
         time_period    |-> extract_time_period(q),
         use_ml         |-> UseMl(c[1]),
         use_llm        |-> UseLlm(c[1]),
         original_query |-> q]

-----------------------------------------------------------------------------
(* The questions the router is called with: up to MaxWords phrases joined by
   single spaces, and the sample questions of the router's own test list *)

Phrases ==
    {"How many", "croissants", "cinnamon rolls", "What do we need", "flour",
     "butter", "production", "Where", "buy", "Should I", "today", "0 days",
     "12 weeks", "\ncroissant"}

RECURSIVE Join(_)
Join(ws) ==
    IF Len(ws) = 0 THEN ""
    ELSE IF Len(ws) = 1 THEN ws[1]
    ELSE ws[1] \o " " \o Join(Tail(ws))

test_queries ==
    {"How many croissants do we need for next week?",
     "What raw materials should I order?",
     "Where can I buy cheap flour?",
     "Should I increase production for the holidays?",
     "What's our inventory needs for sandwiches tomorrow?",
     "How to store sourdough bread properly?",
     "Production forecast for donuts this week"}

\* further questions, one per case the phrases do not reach
SampleQueries ==
    {"how many ingredients do we need", "cinnamon_roll for 3 month",
     "how much donut", "we recommend muffins", "next month 2 days", "hello",
     "price", "what should i need: eggs", "stock tomorrow", "find where",
     "baguette this week", "Sourdough", "7day", "how  many croissants",
     "what do we need, how many croissants"}

Queries ==
    {Join(ws) : ws \in UNION {[1..n -> Phrases] : n \in 0..MaxWords}}
        \cup test_queries \cup SampleQueries

-----------------------------------------------------------------------------
(* The router's calls *)

NoResult == [none |-> TRUE]

RouterInit ==
    /\ ml_keywords = MlKeywordsInit
    /\ llm_keywords = LlmKeywordsInit
    /\ products = ProductsInit

ClassifyQuery ==
    /\ op' = "classify_query"
    /\ result' = classify_query(query)
    /\ UNCHANGED <<serviceVars, routerVars, query, forecasterVars>>

ExtractProduct ==
    /\ op' = "extract_product"
    /\ result' = extract_product(query)
    /\ UNCHANGED <<serviceVars, routerVars, query, forecasterVars>>

ExtractTimePeriod ==
    /\ op' = "extract_time_period"
    /\ result' = extract_time_period(query)
    /\ UNCHANGED <<serviceVars, routerVars, query, forecasterVars>>

\* route with the matched product taken off self.products
Route_consumesProduct ==
    /\ op' = "route"
    /\ result' = route(query)
    /\ products' = SelectSeq(products, LAMBDA p : ~Contains(Lower(query), p))
    /\ UNCHANGED <<serviceVars, ml_keywords, llm_keywords, query, forecasterVars>>

Route ==
    /\ op' = "route"
    /\ result' = route(query)
    /\ UNCHANGED <<serviceVars, routerVars, query, forecasterVars>>

-----------------------------------------------------------------------------
(* The assistant, the endpoint and the worker threads before any call; the
   assistant has no credential *)

ServiceInit ==
    /\ client = None
    /\ lres = NoResult
    /\ api = NoResult
    /\ threads = <<>>

-----------------------------------------------------------------------------
(* FreshCastForecaster.__init__ *)

ForecasterInit ==
    /\ models = <<>>
    /\ trained = FALSE
    /\ fop = "idle"
    /\ fargs = NoResult
    /\ fres = NoResult

-----------------------------------------------------------------------------
(* What the fitted Prophet models return.  A value v stands for v / Scale. *)

\* forecast values are multiples of 1 / Scale
Scale == 2

\* the rows (yhat, yhat_lower, yhat_upper) a model can produce for one day
ForecastRows ==
    { [yhat |-> 100 * Scale, yhat_lower |-> 100 * Scale, yhat_upper |-> 100 * Scale],
      [yhat |-> 5,           yhat_lower |-> 1,           yhat_upper |-> 8],
      [yhat |-> -5 * Scale,  yhat_lower |-> -8 * Scale,  yhat_upper |-> -2 * Scale] }

\* the products a model can be trained or loaded for
ModelProducts == {"Croissant", "Donut", "Sandwich", "Bagel"}

\* service levels, in percent
ServiceLevels == {1, 50, 95, 100}

\* the sequences of distinct elements of S of length at most n
DistinctSeqs(S, n) ==
    { q \in UNION {[1..k -> S] : k \in 0..n} :
        \A i, j \in 1..Len(q) : i # j => q[i] # q[j] }

\* numpy's round(): n / d rounded to the nearest integer, halves to even
RoundHalfEven(n, d) ==
    LET q == n \div d
        r == n % d
    IN  IF 2 * r < d THEN q
        ELSE IF 2 * r > d THEN q + 1
        ELSE IF q % 2 = 0 THEN q ELSE q + 1

RECURSIVE SumSeq(_)
SumSeq(q) == IF Len(q) = 0 THEN 0 ELSE Head(q) + SumSeq(Tail(q))

-----------------------------------------------------------------------------
(* FreshCastForecaster.train and load_models *)

\* self.models[product] = model: a new key goes last, a present key stays
StoreModel(keys, product) ==
    IF \E i \in 1..Len(keys) : keys[i] = product THEN keys ELSE Append(keys, product)

RECURSIVE StoreModels(_, _)
StoreModels(keys, ps) ==
    IF Len(ps) = 0 THEN keys ELSE StoreModels(StoreModel(keys, Head(ps)), Tail(ps))

\* train(train_data, products) fits and stores a model per product
Train(ps) ==
    /\ fop = "idle"
    /\ Len(StoreModels(models, ps)) <= MaxModels
    /\ models' = StoreModels(models, ps)
    /\ trained' = TRUE
    /\ fop' = "train"
    /\ fargs' = [products |-> ps]
    /\ fres' = [error |-> "none"]
    /\ UNCHANGED <<serviceVars, routerVars, callVars>>

\* fitting the model of ps[k] raises: the models before it are stored
TrainFails(ps, k) ==
    /\ fop = "idle"
    /\ k \in 1..Len(ps)
    /\ Len(StoreModels(models, SubSeq(ps, 1, k - 1))) <= MaxModels
    /\ models' = StoreModels(models, SubSeq(ps, 1, k - 1))
    /\ fop' = "train"
    /\ fargs' = [products |-> ps]
    /\ fres' = [error |-> "FitError"]
    /\ UNCHANGED <<serviceVars, routerVars, callVars, trained>>

\* load_models replaces the models by the unpickled dictionary
LoadModels(ks) ==
    /\ fop = "idle"
    /\ models' = ks
    /\ trained' = TRUE
    /\ fop' = "load_models"
    /\ fargs' = [keys |-> ks]
    /\ fres' = [error |-> "none"]
    /\ UNCHANGED <<serviceVars, routerVars, callVars>>

\* open() or pickle.load() raises
LoadModelsFails ==
    /\ fop = "idle"
    /\ fop' = "load_models"
    /\ fargs' = NoResult
    /\ fres' = [error |-> "IOError"]
    /\ UNCHANGED <<serviceVars, routerVars, callVars, models, trained>>

-----------------------------------------------------------------------------
(* FreshCastForecaster.predict *)

HasModel(product_name) == \E i \in 1..Len(models) : models[i] = product_name

\* predict with the model looked up before the trained flag is tested
PredictError_lookupFirst(product_name) ==
    IF ~HasModel(product_name) THEN "ModelNotFound"
    ELSE IF ~trained THEN "NotTrained"
    ELSE "none"

\* the error predict raises, "none" when it raises none
PredictError(product_name) ==
    IF ~trained THEN "NotTrained"
    ELSE IF ~HasModel(product_name) THEN "ModelNotFound"
    ELSE "none"

\* future_forecast['yhat'].clip(lower=0)
ClipRow(row) == [row EXCEPT !.yhat = IF row.yhat < 0 THEN 0 ELSE row.yhat]

\* the rows predict returns for the rows the model produced
predict(raw) == [i \in 1..Len(raw) |-> ClipRow(raw[i])]

Predict(product_name, days_ahead) ==
    /\ fop = "idle"
    /\ fop' = "predict"
    /\ fargs' = [product_name |-> product_name, days_ahead |-> days_ahead]
    /\ IF PredictError(product_name) # "none"
       THEN fres' = [error |-> PredictError(product_name)]
       ELSE \E raw \in [1..days_ahead -> ForecastRows] :
               fres' = [error |-> "none", forecast |-> predict(raw)]
    /\ UNCHANGED <<serviceVars, routerVars, callVars, models, trained>>

-----------------------------------------------------------------------------
(* FreshCastForecaster.calculate_inventory_needs *)

\* forecast['uncertainty'] = forecast['yhat_upper'] - forecast['yhat']
Uncertainty(row) == row.yhat_upper - row.yhat

\* (yhat + uncertainty * service_level).round().astype(int)
RecommendedProduction(row, service_level) ==
    RoundHalfEven(row.yhat * 100 + Uncertainty(row) * service_level, Scale * 100)

\* forecast['yhat'].round().astype(int)
ExpectedDemand(row) == RoundHalfEven(row.yhat, Scale)

\* the rows calculate_inventory_needs returns for the rows the model produced
calculate_inventory_needs(raw, service_level) ==
    LET forecast == predict(raw)
    IN  [i \in 1..Len(forecast) |->
            [expected_demand        |-> ExpectedDemand(forecast[i]),
             recommended_production |-> RecommendedProduction(forecast[i], service_level),
             yhat                   |-> forecast[i].yhat,
             yhat_upper             |-> forecast[i].yhat_upper]]

CalculateInventoryNeeds(product_name, days_ahead, service_level) ==
    /\ fop = "idle"
    /\ fop' = "calculate_inventory_needs"
    /\ fargs' = [product_name |-> product_name, days_ahead |-> days_ahead,
                 service_level |-> service_level]
    /\ IF PredictError(product_name) # "none"
       THEN fres' = [error |-> PredictError(product_name)]
       ELSE \E raw \in [1..days_ahead -> ForecastRows] :
               fres' = [error |-> "none",
                        inventory |-> calculate_inventory_needs(raw, service_level)]
    /\ UNCHANGED <<serviceVars, routerVars, callVars, models, trained>>

-----------------------------------------------------------------------------
(* FreshCastForecaster.get_raw_materials.  A dictionary is the sequence of
   its (key, value) pairs in insertion order.  Accumulated quantities are
   thousandths of a kilogram, listed quantities hundredths. *)

RECIPES ==
    [Croissant     |-> << <<"flour", 12>>, <<"butter", 8>>, <<"eggs", 15>> >>,
     Baguette      |-> << <<"flour", 15>>, <<"butter", 0>>, <<"eggs", 0>> >>,
     Sourdough     |-> << <<"flour", 18>>, <<"butter", 2>>, <<"eggs", 0>> >>,
     Sandwich      |-> << <<"flour", 8>>, <<"butter", 3>>, <<"eggs", 10>>,
                          <<"meat", 5>>, <<"vegetables", 3>> >>,
     Donut         |-> << <<"flour", 10>>, <<"butter", 5>>, <<"eggs", 12>>, <<"sugar", 6>> >>,
     Muffin        |-> << <<"flour", 11>>, <<"butter", 4>>, <<"eggs", 10>>, <<"sugar", 5>> >>,
     Cinnamon_Roll |-> << <<"flour", 12>>, <<"butter", 6>>, <<"eggs", 8>>, <<"sugar", 7>> >>]

DictHas(d, key) == \E i \in 1..Len(d) : d[i][1] = key

\* d.get(key, default)
DictGet(d, key, default) ==
    IF DictHas(d, key) THEN d[CHOOSE i \in 1..Len(d) : d[i][1] = key][2] ELSE default

\* d[key] = value
DictSet(d, key, value) ==
    IF DictHas(d, key)
    THEN [i \in 1..Len(d) |-> IF d[i][1] = key THEN <<key, value>> ELSE d[i]]
    ELSE Append(d, <<key, value>>)

\* needed = (total_production / 100) * qty_per_100, in thousandths of a kg
Needed(total_production, qty_per_100) == total_production * qty_per_100 * 10

RECURSIVE AddRecipe_overwrites(_, _, _)
\* the inner loop with = for +=: materials[material] = needed
AddRecipe_overwrites(materials, recipe, total_production) ==
    IF Len(recipe) = 0 THEN materials
    ELSE AddRecipe_overwrites(
            DictSet(materials, Head(recipe)[1],
                    Needed(total_production, Head(recipe)[2])),
            Tail(recipe), total_production)

RECURSIVE AddRecipe(_, _, _)
\* the inner loop: materials[material] = materials.get(material, 0) + needed
AddRecipe(materials, recipe, total_production) ==
    IF Len(recipe) = 0 THEN materials
    ELSE AddRecipe(
            DictSet(materials, Head(recipe)[1],
                    DictGet(materials, Head(recipe)[1], 0)
                        + Needed(total_production, Head(recipe)[2])),
            Tail(recipe), total_production)

RECURSIVE Accumulate(_, _, _)
\* the outer loop over the products `keys`, whose total recommended
\* productions are `totals`, from the dictionary `materials` on
Accumulate(materials, keys, totals) ==
    IF Len(keys) = 0 THEN materials
    ELSE Accumulate(
            IF Head(keys) \in DOMAIN RECIPES
            THEN AddRecipe(materials, RECIPES[Head(keys)], Head(totals))
            ELSE materials,
            Tail(keys), Tail(totals))

\* round(qty, 2): thousandths to hundredths
Round2(qty) == RoundHalfEven(qty, 10)

\* DataFrame(...).sort_values('quantity_kg', ascending=False): descending,
\* equal quantities stay in insertion order
SortValues(rows) ==
    LET n == Len(rows)
        Before(i, j) == \/ rows[i].quantity_kg > rows[j].quantity_kg
                        \/ rows[i].quantity_kg = rows[j].quantity_kg /\ i < j
        Rank(i) == 1 + Cardinality({j \in 1..n : Before(j, i)})
    IN  [p \in 1..n |-> rows[CHOOSE i \in 1..n : Rank(i) = p]]

\* the listing built from the accumulated dictionary
MaterialsFrame(materials) ==
    SortValues([i \in 1..Len(materials) |->
                  [material |-> materials[i][1], quantity_kg |-> Round2(materials[i][2])]])

\* inventory['recommended_production'].sum()
TotalProduction(inventory) ==
    SumSeq([i \in 1..Len(inventory) |-> inventory[i].recommended_production])

\* the error get_raw_materials raises, "none" when it raises none: predict's
\* for the first product, and sort_values' KeyError on a frame without rows
RawMaterialsError ==
    IF Len(models) > 0 /\ ~trained THEN "NotTrained"
    ELSE IF \A i \in 1..Len(models) : models[i] \notin DOMAIN RECIPES THEN "KeyError"
    ELSE "none"

GetRawMaterials(days_ahead) ==
    /\ fop = "idle"
    /\ fop' = "get_raw_materials"
    /\ fargs' = [days_ahead |-> days_ahead]
    /\ IF RawMaterialsError # "none"
       THEN fres' = [error |-> RawMaterialsError]
       ELSE \E raw \in [1..Len(models) -> [1..days_ahead -> ForecastRows]] :
               LET totals == [i \in 1..Len(models) |->
                                TotalProduction(calculate_inventory_needs(raw[i], 95))]
                   materials == Accumulate(<<>>, models, totals)
               IN  fres' = [error |-> "none", totals |-> totals,
                            materials |-> materials,
                            listing |-> MaterialsFrame(materials)]
    /\ UNCHANGED <<serviceVars, routerVars, callVars, models, trained>>

\* the call returns to its caller
Return ==
    /\ fop # "idle"
    /\ fop' = "idle"
    /\ fargs' = NoResult
    /\ fres' = NoResult
    /\ UNCHANGED <<serviceVars, routerVars, callVars, models, trained>>

-----------------------------------------------------------------------------
(* FreshCastLLM.  The texts are given without their leading mark. *)

\* the values OPENAI_API_KEY can have; None when it is not set
ApiKeys == {None, "", "sk-test"}

\* __init__: no client without a key
NewClient(api_key) == IF api_key = None \/ api_key = "" THEN None ELSE "OpenAI"

SYSTEM_PROMPT == "You are FreshCast AI Assistant"

\* what chat.completions.create can do: answer with a text, with an empty
\* text, with a message without content, with no choice at all, or raise
ProviderOutcomes ==
    { [kind |-> "content",    content |-> "Order flour in bulk."],
      [kind |-> "content",    content |-> ""],
      [kind |-> "no_content", content |-> None],
      [kind |-> "no_choices", content |-> "list index out of range"],
      [kind |-> "raises",     content |-> "Connection error."] }

\* the messages sent: the prompt, the context when there is one, the question
Messages(user_question, context) ==
    << <<"system", SYSTEM_PROMPT>> >>
        \o (IF context # None /\ context # ""
            THEN << <<"system", "Current context: " \o context>> >> ELSE <<>>)
        \o << <<"user", user_question>> >>

\* the statements under try: the value returned, or the exception raised
QueryBody(cl, user_question, context, provider) ==
    IF cl = None
    THEN [exception |-> "'NoneType' object has no attribute 'chat'",
          contacted |-> FALSE, provider |-> "none", value |-> None,
          messages |-> Messages(user_question, context)]
    ELSE IF provider.kind \in {"raises", "no_choices"}
    THEN [exception |-> provider.content, contacted |-> TRUE,
          provider |-> provider.kind, value |-> None,
          messages |-> Messages(user_question, context)]
    ELSE [exception |-> None, contacted |-> TRUE,
          provider |-> provider.kind, value |-> provider.content,
          messages |-> Messages(user_question, context)]

\* try ... except Exception as e: return "Error: " + str(e)
QueryTry(cl, user_question, context, provider) ==
    LET body == QueryBody(cl, user_question, context, provider)
    IN  IF body.exception # None
        THEN [outcome |-> "error", raised |-> FALSE, contacted |-> body.contacted,
              provider |-> body.provider,
              value |-> "Error: " \o body.exception, messages |-> body.messages]
        ELSE [outcome |-> "answer", raised |-> FALSE, contacted |-> body.contacted,
              provider |-> body.provider,
              value |-> body.value, messages |-> body.messages]

LLM_NOT_CONFIGURED == "LLM not configured. Please set OPENAI_API_KEY in .env file."

\* query without its first statement, the test of self.client
FreshCastLLM_query_noClientTest(cl, user_question, context, provider) ==
    QueryTry(cl, user_question, context, provider)

\* FreshCastLLM.query
FreshCastLLM_query(cl, user_question, context, provider) ==
    IF cl = None
    THEN [outcome |-> "unavailable", raised |-> FALSE, contacted |-> FALSE,
          provider |-> "none",
          value |-> LLM_NOT_CONFIGURED, messages |-> <<>>]
    ELSE QueryTry(cl, user_question, context, provider)

\* the questions and contexts the assistant is called with directly
LlmQuestions == {"", "Where can I buy flour", "Should I raise prices"}
LlmContexts == {None, "", "flour: 12 kg"}

LlmQuery(user_question, context, provider) ==
    /\ lres = NoResult
    /\ api = NoResult
    /\ lres' = FreshCastLLM_query(client, user_question, context, provider)
    /\ UNCHANGED <<routerVars, callVars, forecasterVars, client, api, threads>>

-----------------------------------------------------------------------------
(* ask_question: the endpoint over the module's router, forecaster and
   assistant.  An answer is kept as the parts its text is built from. *)

\* the dictionaries the models file can hold at startup
SavedModels ==
    {<<>>, <<"Croissant">>, <<"Bagel">>, <<"Donut", "Croissant">>, <<"Bagel", "Croissant">>}

\* the questions asked
ApiQuestions ==
    {"What do we need flour today", "How many croissants", "How many croissants today",
     "How many croissants 0 days", "How many cinnamon rolls", "How many donuts today",
     "production", "production today", "Where can I buy flour", "Should I raise prices",
     "hello", ""}

RECURSIVE RowsInOrder(_, _)
\* the forecast with counts[r] days of each row r of S
RowsInOrder(counts, S) ==
    IF S = {} THEN <<>>
    ELSE LET r == CHOOSE x \in S : TRUE
         IN  [i \in 1..counts[r] |-> r] \o RowsInOrder(counts, S \ {r})

RECURSIVE SumCounts(_, _)
SumCounts(counts, S) ==
    IF S = {} THEN 0
    ELSE LET r == CHOOSE x \in S : TRUE
         IN  counts[r] + SumCounts(counts, S \ {r})

\* the forecasts a model can produce for `days` days, one for each choice of
\* how many days get which row: the endpoint only adds the days up
Forecasts(days) ==
    { RowsInOrder(counts, ForecastRows) :
        counts \in { c \in [ForecastRows -> 0..days] : SumCounts(c, ForecastRows) = days } }

\* the branch of the forecasting half taken for a routing decision
MlBranch(routing) ==
    IF routing.query_type = RAW_MATERIALS THEN "get_raw_materials"
    ELSE IF routing.product # None THEN "calculate_inventory_needs"
    ELSE "get_weekly_summary"

\* the days_ahead the forecaster is called with in that branch
DaysAhead(routing) ==
    IF MlBranch(routing) = "get_weekly_summary" THEN 7 ELSE routing.time_period

\* the forecasts of the models, in the order of the keys, that the branch
\* can use
ForecastsFor(routing) ==
    IF ~routing.use_ml THEN {<<>>}
    ELSE IF MlBranch(routing) = "calculate_inventory_needs"
    THEN { [i \in 1..Len(models) |-> IF models[i] = routing.product THEN raw ELSE <<>>] :
             raw \in Forecasts(DaysAhead(routing)) }
    ELSE [1..Len(models) -> Forecasts(DaysAhead(routing))]

\* inventory['expected_demand'].sum()
TotalDemand(inventory) ==
    SumSeq([i \in 1..Len(inventory) |-> inventory[i].expected_demand])

\* the forecasting half of the answer, or the exception of the forecaster or
\* of the arithmetic on its figures.  A sum of no days is numpy's 0, which
\* divided by 0 days is nan, and int(nan) raises ValueError.
MlAnswer(routing, forecasts) ==
    LET branch == MlBranch(routing)
        days == routing.time_period
    IN  IF branch = "get_raw_materials"
        THEN IF RawMaterialsError # "none"
             THEN [exception |-> RawMaterialsError]
             ELSE LET totals == [i \in 1..Len(models) |->
                                   TotalProduction(calculate_inventory_needs(forecasts[i], 95))]
                  IN  [exception |-> "none", kind |-> branch, days |-> days,
                       days_ahead |-> DaysAhead(routing),
                       rows |-> MaterialsFrame(Accumulate(<<>>, models, totals))]
        ELSE IF branch = "calculate_inventory_needs"
        THEN IF PredictError(routing.product) # "none"
             THEN [exception |-> PredictError(routing.product)]
             ELSE IF days = 0
             THEN [exception |-> "ValueError"]
             ELSE LET k == CHOOSE i \in 1..Len(models) : models[i] = routing.product
                      inventory == calculate_inventory_needs(forecasts[k], 95)
                  IN  [exception |-> "none", kind |-> branch, days |-> days,
                       days_ahead |-> DaysAhead(routing),
                       rows |-> << [product |-> routing.product,
                                    total_demand |-> TotalDemand(inventory),
                                    total_production |-> TotalProduction(inventory),
                                    daily_average |-> TotalDemand(inventory) \div days] >>]
        ELSE IF Len(models) > 0 /\ ~trained
        THEN [exception |-> "NotTrained"]
        ELSE [exception |-> "none", kind |-> branch, days |-> days,
              days_ahead |-> DaysAhead(routing),
              rows |-> [i \in 1..Len(models) |->
                          [product |-> models[i],
                           total_production |->
                               TotalProduction(calculate_inventory_needs(forecasts[i], 95))]]]

NOT_SURE == "I'm not sure how to answer that. Try asking about inventory needs, forecasts, or business advice!"

\* bool(text) of a text or None
Truthy(text) == text # None /\ text # ""

\* the forecasting half when it is not used, the reply when the assistant
\* is not called
NoMl == [exception |-> "unused"]
NoLlm == [outcome |-> "uncalled", value |-> None]

\* the response for the routing decision, the forecasting half `ml` and the
\* assistant's reply `llm`
Respond(routing, ml, llm) ==
    LET llm_response == llm.value
        combined == ml # NoMl /\ llm # NoLlm
        text == IF ml # NoMl \/ llm = NoLlm THEN None ELSE llm_response
        fallback == ml = NoMl /\ ~Truthy(text)
    IN  [status     |-> 200,
         answer     |-> [ml       |-> ml,
                         insight  |-> IF combined THEN <<llm_response>> ELSE <<>>,
                         text     |-> IF fallback THEN NOT_SURE ELSE text],
         query_type |-> routing.query_type,
         confidence |-> routing.confidence,
         used_ml    |-> routing.use_ml,
         used_llm   |-> routing.use_llm,
         calls      |-> (IF ml # NoMl THEN <<ml.kind>> ELSE <<>>)
                           \o (IF llm # NoLlm THEN <<"query">> ELSE <<>>)]

\* ask_question: any exception ends in HTTPException(500, str(e))
ask_question(question, forecasts, provider) ==
    LET routing == route(question)
        mlres == IF routing.use_ml THEN MlAnswer(routing, forecasts) ELSE NoMl
        llm == IF routing.use_llm
               THEN FreshCastLLM_query(client, question, None, provider) ELSE NoLlm
    IN  IF mlres.exception \notin {"none", "unused"}
        THEN [status |-> 500, detail |-> mlres.exception,
              query_type |-> routing.query_type,
              calls |-> <<MlBranch(routing)>>]
        ELSE Respond(routing, mlres, llm)

\* a request, served once the module has tried to load the models
AskQuestion(question, provider) ==
    /\ fop = "load_models"
    /\ lres = NoResult
    /\ api = NoResult
    /\ \E forecasts \in ForecastsFor(route(question)) :
          api' = ask_question(question, forecasts, provider)
    /\ lres' = IF route(question).use_llm /\ api'.status = 200
               THEN FreshCastLLM_query(client, question, None, provider)
               ELSE lres
    /\ UNCHANGED <<routerVars, callVars, forecasterVars, client, threads>>

\* the reply or the response is handed to the caller
Reply ==
    /\ lres # NoResult \/ api # NoResult
    /\ lres' = NoResult
    /\ api' = NoResult
    /\ UNCHANGED <<routerVars, callVars, forecasterVars, client, threads>>

-----------------------------------------------------------------------------
(* Concurrent calls on the module's router and forecaster.  Each thread makes
   one call and runs it statement by statement; what a statement reads of
   self.* it reads at that moment. *)

NumThreads == 2

\* the forecaster as earlier training or loading can have left it
SharedForecasters ==
    { [models |-> <<>>, trained |-> FALSE],
      [models |-> <<"Croissant">>, trained |-> FALSE],
      [models |-> <<"Croissant", "Bagel">>, trained |-> TRUE] }

\* the rows a model produces for a day of a concurrent call
ConcurrentRows == { row \in ForecastRows : row.yhat # 100 * Scale }

\* the calls made
ConcurrentCalls ==
    { [op |-> "route", q |-> q] : q \in {"How many croissants today", "Where can I buy flour"} }
    \cup { [op |-> "predict", product_name |-> p, days_ahead |-> 1] :
             p \in {"Croissant", "Donut"} }
    \cup { [op |-> "calculate_inventory_needs", product_name |-> p, days_ahead |-> 1,
            service_level |-> 95] : p \in {"Croissant", "Donut"} }
    \cup { [op |-> "get_raw_materials", days_ahead |-> 1] }

NoLocal == [i |-> 0, raw |-> <<>>, materials |-> <<>>, classified |-> <<>>, product |-> None]

IdleThread == [call |-> NoResult, pc |-> "idle", local |-> NoLocal, ret |-> NoResult]

\* the thread returns v, or raises when v is an error
Done(th, v) == [th EXCEPT !.pc = "done", !.local = NoLocal, !.ret = v]

\* the product the thread's predict is about
CurrentProduct(th) ==
    IF th.call.op = "get_raw_materials" THEN models[th.local.i] ELSE th.call.product_name

\* a thread starts a call
Begin(t, call) ==
    /\ threads[t].pc = "idle"
    /\ threads' = [threads EXCEPT ![t] =
          [call  |-> call,
           pc    |-> IF call.op = "route" THEN "classify"
                     ELSE IF call.op # "get_raw_materials" THEN "trained"
                     ELSE IF Len(models) = 0 THEN "frame" ELSE "trained",
           local |-> [NoLocal EXCEPT !.i = IF call.op = "get_raw_materials" THEN 1 ELSE 0],
           ret   |-> NoResult]]
    /\ UNCHANGED <<routerVars, callVars, forecasterVars, client, lres, api>>

\* route: classification = self.classify_query(query)
StepClassify(t) ==
    /\ threads[t].pc = "classify"
    /\ threads' = [threads EXCEPT ![t].pc = "extract_product",
                                  ![t].local.classified = classify_query(threads[t].call.q)]
    /\ UNCHANGED <<routerVars, callVars, forecasterVars, client, lres, api>>

\* route: product = self.extract_product(query), which also puts the
\* normalized names back into self.products
StepExtractProduct_normalizesInPlace(t) ==
    /\ threads[t].pc = "extract_product"
    /\ threads' = [threads EXCEPT ![t].pc = "extract_time_period",
                                  ![t].local.product = extract_product(threads[t].call.q)]
    /\ products' = [i \in 1..Len(products) |-> NormalizeProduct(products[i])]
    /\ UNCHANGED <<ml_keywords, llm_keywords, callVars, forecasterVars, client, lres, api>>

\* route: product = self.extract_product(query)
StepExtractProduct(t) ==
    /\ threads[t].pc = "extract_product"
    /\ threads' = [threads EXCEPT ![t].pc = "extract_time_period",
                                  ![t].local.product = extract_product(threads[t].call.q)]
    /\ UNCHANGED <<routerVars, callVars, forecasterVars, client, lres, api>>

\* route: time_period = self.extract_time_period(query), and the decision
\* is built and returned
StepExtractTimePeriod(t) ==
    /\ threads[t].pc = "extract_time_period"
    /\ LET th == threads[t]
           query_type == th.local.classified[1]
       IN  threads' = [threads EXCEPT ![t] =
              Done(th, [query_type     |-> query_type,
                        confidence     |-> th.local.classified[2],
                        product        |-> th.local.product,
                        time_period    |-> extract_time_period(th.call.q),
                        use_ml         |-> UseMl(query_type),
                        use_llm        |-> UseLlm(query_type),
                        original_query |-> th.call.q])]
    /\ UNCHANGED <<routerVars, callVars, forecasterVars, client, lres, api>>

\* predict: if not self.trained: raise
StepTrained(t) ==
    /\ threads[t].pc = "trained"
    /\ threads' = [threads EXCEPT ![t] =
          IF ~trained THEN Done(@, [error |-> "NotTrained"])
          ELSE [@ EXCEPT !.pc = "lookup"]]
    /\ UNCHANGED <<routerVars, callVars, forecasterVars, client, lres, api>>

\* predict: if product_name not in self.models: raise
StepLookup(t) ==
    /\ threads[t].pc = "lookup"
    /\ threads' = [threads EXCEPT ![t] =
          IF ~HasModel(CurrentProduct(@)) THEN Done(@, [error |-> "ModelNotFound"])
          ELSE [@ EXCEPT !.pc = "forecast"]]
    /\ UNCHANGED <<routerVars, callVars, forecasterVars, client, lres, api>>

\* predict: the model forecasts, and predict returns the clipped rows
StepForecast(t) ==
    /\ threads[t].pc = "forecast"
    /\ \E raw \in [1..threads[t].call.days_ahead -> ConcurrentRows] :
          threads' = [threads EXCEPT ![t] =
             IF @.call.op = "predict"
             THEN Done(@, [error |-> "none", forecast |-> predict(raw)])
             ELSE [@ EXCEPT !.pc = "inventory", !.local.raw = raw]]
    /\ UNCHANGED <<routerVars, callVars, forecasterVars, client, lres, api>>

\* calculate_inventory_needs after its predict; in get_raw_materials the
\* recipe of the product is added to the thread's own dictionary
StepInventory(t) ==
    /\ threads[t].pc = "inventory"
    /\ LET th == threads[t]
           service_level == IF th.call.op = "get_raw_materials" THEN 95
                            ELSE th.call.service_level
           inventory == calculate_inventory_needs(th.local.raw, service_level)
           product == CurrentProduct(th)
           materials == IF product \in DOMAIN RECIPES
                        THEN AddRecipe(th.local.materials, RECIPES[product],
                                       TotalProduction(inventory))
                        ELSE th.local.materials
       IN  threads' = [threads EXCEPT ![t] =
              IF th.call.op = "calculate_inventory_needs"
              THEN Done(th, [error |-> "none", inventory |-> inventory])
              ELSE [th EXCEPT !.pc = IF th.local.i < Len(models) THEN "trained" ELSE "frame",
                              !.local.i = @ + 1,
                              !.local.raw = <<>>,
                              !.local.materials = materials]]
    /\ UNCHANGED <<routerVars, callVars, forecasterVars, client, lres, api>>

\* get_raw_materials: the frame is built and sorted
StepFrame(t) ==
    /\ threads[t].pc = "frame"
    /\ threads' = [threads EXCEPT ![t] =
          IF @.local.materials = <<>> THEN Done(@, [error |-> "KeyError"])
          ELSE Done(@, [error |-> "none", listing |-> MaterialsFrame(@.local.materials)])]
    /\ UNCHANGED <<routerVars, callVars, forecasterVars, client, lres, api>>

\* what the call can return when it runs alone on the shared instances
SequentialResults(call) ==
    IF call.op = "route" THEN {route(call.q)}
    ELSE IF call.op = "predict"
    THEN IF PredictError(call.product_name) # "none"
         THEN {[error |-> PredictError(call.product_name)]}
         ELSE { [error |-> "none", forecast |-> predict(raw)] :
                  raw \in [1..call.days_ahead -> ConcurrentRows] }
    ELSE IF call.op = "calculate_inventory_needs"
    THEN IF PredictError(call.product_name) # "none"
         THEN {[error |-> PredictError(call.product_name)]}
         ELSE { [error |-> "none",
                 inventory |-> calculate_inventory_needs(raw, call.service_level)] :
                  raw \in [1..call.days_ahead -> ConcurrentRows] }
    ELSE IF RawMaterialsError # "none"
    THEN {[error |-> RawMaterialsError]}
    ELSE { [error |-> "none",
            listing |-> MaterialsFrame(Accumulate(<<>>, models,
                          [i \in 1..Len(models) |->
                              TotalProduction(calculate_inventory_needs(raw[i], 95))]))] :
             raw \in [1..Len(models) -> [1..call.days_ahead -> ConcurrentRows]] }

-----------------------------------------------------------------------------
(* The router called on any of the questions *)

Init ==
    /\ RouterInit
    /\ query \in Queries
    /\ op = "none"
    /\ result = NoResult
    /\ ForecasterInit
    /\ ServiceInit

Next ==
    \/ ClassifyQuery
    \/ ExtractProduct
    \/ ExtractTimePeriod
    \/ Route

Spec == Init /\ [][Next]_vars

-----------------------------------------------------------------------------
(* Properties of the router *)

IsDecision(d) ==
    /\ DOMAIN d = {"query_type", "confidence", "product", "time_period",
                   "use_ml", "use_llm", "original_query"}
    /\ d.query_type \in QueryType
    /\ d.confidence \in 0..100
    /\ d.time_period \in Int
    /\ d.use_ml \in BOOLEAN
    /\ d.use_llm \in BOOLEAN

\* C1: the decision route returns has exactly one of use_ml / use_llm set:
\* use_ml alone exactly for forecast_demand, inventory_needs and
\* raw_materials, use_llm alone exactly for business_advice, supplier_info
\* and general_question, and the type is one of these six.
C1_ExactlyOneCapability ==
    op = "route" =>
        /\ result.query_type \in QueryType
        /\ result.use_ml # result.use_llm
        /\ result.use_ml <=>
              result.query_type \in {"forecast_demand", "inventory_needs", "raw_materials"}
        /\ result.use_llm <=>
              result.query_type \in {"business_advice", "supplier_info", "general_question"}

C1_Witness ==
    /\ op = "route"
    /\ result.query_type = "general_question"
    /\ result.use_llm
    /\ ~result.use_ml

\* the pattern rules in the order (a) .. (e): whether each fires on the
\* lower-cased question, and what it returns
RuleFires(query_lower) ==
    <<Pattern1(query_lower), Pattern2(query_lower), Pattern3(query_lower),
      Pattern4(query_lower), Pattern5(query_lower)>>

RuleResult(query_lower) ==
    << <<"forecast_demand", 90>>,
       IF Pattern2Materials(query_lower) THEN <<"raw_materials", 85>>
                                         ELSE <<"inventory_needs", 85>>,
       <<"inventory_needs", 80>>,
       <<"supplier_info", 90>>,
       <<"business_advice", 85>> >>

\* C2: classify_query returns the result of the first rule, in the order
\* (a) quantity+product, (b) what-do-we-need, (c) production vocabulary,
\* (d) where-buy, (e) should-i / recommend, whose predicate holds; the
\* keyword scores decide only when no rule holds.
C2_FirstMatchWins ==
    op = "classify_query" =>
        LET query_lower == Lower(query)
            fires == RuleFires(query_lower)
        IN  /\ \A k \in 1..5 :
                  (fires[k] /\ \A j \in 1..(k - 1) : ~fires[j])
                      => result = RuleResult(query_lower)[k]
            /\ (\A k \in 1..5 : ~fires[k])
                  => /\ result[2] \in {50, 60}
                     /\ result = ScoreDecision(KeywordScore(ml_keywords, query_lower),
                                               KeywordScore(llm_keywords, query_lower))

\* a question on which rule (c) and rule (e) both hold, decided by (c)
C2_Witness ==
    /\ op = "classify_query"
    /\ Pattern3(Lower(query))
    /\ Pattern5(Lower(query))
    /\ ~Pattern1(Lower(query))
    /\ ~Pattern2(Lower(query))
    /\ result = <<"inventory_needs", 80>>

\* a question that starts with "should i" and holds production vocabulary
ShouldIWithProduction(q) ==
    /\ StartsWith(Lower(q), "should i")
    /\ \E word \in {"production", "inventory", "stock"} : Contains(Lower(q), word)

\* C3 as stated: such a question is business_advice at 0.85
C3_Original ==
    (op = "classify_query" /\ ShouldIWithProduction(query))
        => result = <<"business_advice", 85>>

\* C3, amended: a question that starts with "should i" and holds
\* production / inventory / stock vocabulary is inventory_needs at 0.80
\* unless rule (a) or (b) holds for it, the production rule being checked
\* before the "should i" rule; so is "Should I increase production for the
\* holidays?".
C3_ProductionRuleFirst ==
    /\ (op = "classify_query" /\ ShouldIWithProduction(query)
           /\ ~Pattern1(Lower(query)) /\ ~Pattern2(Lower(query)))
          => result = <<"inventory_needs", 80>>
    /\ (op = "route" /\ query = "Should I increase production for the holidays?")
          => /\ result.query_type = "inventory_needs"
             /\ result.confidence = 80
             /\ result.use_ml

C3_Witness ==
    /\ op = "route"
    /\ query = "Should I increase production for the holidays?"
    /\ result.query_type = "inventory_needs"

\* C4 as stated: "What raw materials should I order?" is raw_materials at
\* 0.85, without product, over 7 days, for the forecasting engine
C4_Original ==
    (op = "route" /\ query = "What raw materials should I order?")
        => /\ result.query_type = "raw_materials"
           /\ result.confidence = 85
           /\ result.product = None
           /\ result.time_period = 7
           /\ result.use_ml

\* C4, amended: "What raw materials should I order?" holds no "need", so no
\* pattern rule holds for it; its one data hit (material) ties with its one
\* knowledge hit (should i), and route yields general_question at 0.50,
\* without product, over 7 days, for the assistant.
C4_NoNeedNoRule ==
    /\ (op = "route" /\ query = "What raw materials should I order?")
          => /\ result.query_type = "general_question"
             /\ result.confidence = 50
             /\ result.product = None
             /\ result.time_period = 7
             /\ ~result.use_ml
             /\ result.use_llm
    /\ (op = "classify_query" /\ ~Contains(Lower(query), "need"))
          => result[1] # "raw_materials"

C4_Witness ==
    /\ op = "route"
    /\ query = "What raw materials should I order?"
    /\ result.query_type = "general_question"
    /\ KeywordScore(ml_keywords, Lower(query)) = 1
    /\ KeywordScore(llm_keywords, Lower(query)) = 1

\* "how many" or "how much" followed, on the same line, by the product name
QuantityThenProduct(query_lower, product) ==
    \E i, j \in 1..Len(query_lower) :
        /\ MatchAt(query_lower, "how many", i) \/ MatchAt(query_lower, "how much", i)
        /\ i + 8 <= j
        /\ MatchAt(query_lower, product, j)
        /\ \A k \in (i + 8)..(j - 1) : CharAt(query_lower, k) # "\n"

\* C5 as stated, for a product name that follows the quantity phrase: for
\* every name of the product list, such a question is forecast_demand at 0.90
C5_QuantityProductIsForecast ==
    op = "classify_query" =>
        \A k \in 1..Len(products) :
            QuantityThenProduct(Lower(query), products[k])
                => result = <<"forecast_demand", 90>>

\* C6 as stated: extract_time_period returns an integer that is at least 1,
\* and 7 when no time phrase matches
C6_HorizonAtLeastOne ==
    op = "extract_time_period" =>
        /\ result \in Int
        /\ result >= 1
        /\ (/\ \A w \in {"today", "tomorrow", "next week", "this week", "next month"} :
                  ~Contains(Lower(query), w)
            /\ NumberUnitStarts(Lower(query)) = {})
              => result = 7

C9_TypeConfidenceGeneral ==
    op = "classify_query" =>
        LET query_lower == Lower(query)
        IN  /\ result[1] \in QueryType
            /\ result[2] \in 0..100
            /\ result[1] = "general_question" => result[2] = 50
            /\ result[1] = "general_question" <=>
                  /\ \A k \in 1..5 : ~RuleFires(query_lower)[k]
                  /\ KeywordScore(ml_keywords, query_lower)
                        = KeywordScore(llm_keywords, query_lower)

\* a tie with hits on both sides
C9_Witness ==
    /\ op = "classify_query"
    /\ result = <<"general_question", 50>>
    /\ KeywordScore(ml_keywords, Lower(query)) >= 1
    /\ KeywordScore(llm_keywords, Lower(query)) = KeywordScore(ml_keywords, Lower(query))

\* C14: a route call leaves ml_keywords, llm_keywords and products as they
\* are and returns the seven fields with original_query the unmodified
\* input; a route call that follows a route call on the same string returns
\* the identical decision, whatever was called before.
C14_RouteIdempotent ==
    [][op' = "route" =>
          /\ ml_keywords' = ml_keywords
          /\ llm_keywords' = llm_keywords
          /\ products' = products
          /\ IsDecision(result')
          /\ result'.original_query = query'
          /\ (op = "route" /\ query' = query) => result' = result]_vars

\* a decision whose original_query differs from its lower-cased form
C14_Witness ==
    /\ op = "route"
    /\ result.original_query = query
    /\ Lower(query) # query
    /\ result.product # None

\* the first match of <integer> <day|week|month>, in days; 0 - 1 for none
FirstNumberUnit(query_lower) ==
    IF NumberUnitStarts(query_lower) = {} THEN 0 - 1
    ELSE LET i == CHOOSE k \in NumberUnitStarts(query_lower) :
                      \A m \in NumberUnitStarts(query_lower) : k <= m
             e == DigitRunEnd(query_lower, i)
             u == SkipSpace(query_lower, e + 1)
             n == ParseInt(query_lower, i, e)
         IN  CASE MatchAt(query_lower, "day", u) -> n
               [] MatchAt(query_lower, "week", u) -> n * 7
               [] MatchAt(query_lower, "month", u) -> n * 30

\* C15: extract_time_period gives 1 for "today" or "tomorrow" anywhere in
\* the text; else 7 for "next week" / "this week"; else 30 for "next
\* month"; else the first <integer> <day|week|month> times 1, 7 or 30; else
\* 7.  A phrase wins over a number wherever the two stand.
C15_HorizonPriority ==
    op = "extract_time_period" =>
        LET query_lower == Lower(query)
            Has(w) == Contains(query_lower, w)
        IN  /\ (Has("today") \/ Has("tomorrow")) => result = 1
            /\ (~Has("today") /\ ~Has("tomorrow")
                    /\ (Has("next week") \/ Has("this week"))) => result = 7
            /\ (~Has("today") /\ ~Has("tomorrow") /\ ~Has("next week")
                    /\ ~Has("this week") /\ Has("next month")) => result = 30
            /\ (~Has("today") /\ ~Has("tomorrow") /\ ~Has("next week")
                    /\ ~Has("this week") /\ ~Has("next month"))
                  => result = IF FirstNumberUnit(query_lower) >= 0
                              THEN FirstNumberUnit(query_lower) ELSE 7

\* "today" after a number of weeks
C15_Witness ==
    /\ op = "extract_time_period"
    /\ Contains(Lower(query), "today")
    /\ FirstNumberUnit(Lower(query)) = 84
    /\ result = 1

\* the canonical product id of each name of the product list
CanonicalId(name) ==
    CASE name = "croissant" -> "Croissant"
      [] name = "baguette" -> "Baguette"
      [] name = "sourdough" -> "Sourdough"
      [] name = "sandwich" -> "Sandwich"
      [] name = "donut" -> "Donut"
      [] name = "muffin" -> "Muffin"
      [] name = "cinnamon roll" -> "Cinnamon_Roll"
      [] name = "cinnamon_roll" -> "Cinnamon_Roll"

\* C16: extract_product returns None when no product name occurs in the
\* lower-cased question, and otherwise the canonical id, a key of the recipe
\* table, of the first name in list order that occurs; "cinnamon roll" and
\* "cinnamon_roll" both give Cinnamon_Roll.
C16_ProductCanonical ==
    op = "extract_product" =>
        LET query_lower == Lower(query)
            found == {k \in 1..Len(ProductsInit) : Contains(query_lower, ProductsInit[k])}
        IN  /\ found = {} <=> result = None
            /\ found # {} =>
                  /\ result \in DOMAIN RECIPES
                  /\ result = CanonicalId(ProductsInit[CHOOSE k \in found :
                                                          \A m \in found : k <= m])
            /\ \A spelling \in {"cinnamon roll", "cinnamon_roll"} :
                  (Contains(query_lower, spelling) /\ \A k \in found : k >= 7)
                      => result = "Cinnamon_Roll"

\* the space-separated spelling, upper and lower case
C16_Witness ==
    /\ op = "extract_product"
    /\ Contains(Lower(query), "cinnamon roll")
    /\ ~Contains(Lower(query), "croissant")
    /\ result = "Cinnamon_Roll"

\* the keyword entries of the two vocabularies, one per entry
DataEntries ==
    <<"forecast", "predict", "prediction", "expect", "anticipated",
      "demand", "need", "sales", "sell", "sold",
      "inventory", "stock", "produce", "production", "make", "bake",
      "material", "ingredient", "flour", "eggs", "butter", "sugar",
      "how many", "how much", "quantity", "amount",
      "today", "tomorrow", "next week", "this week", "next", "week", "day">>

KnowledgeEntries ==
    <<"supplier", "buy", "purchase", "vendor", "where", "cheap", "price",
      "should i", "recommend", "suggest", "advice", "tips", "help", "how to",
      "quality", "fresh", "store", "storage", "shelf life",
      "recipe", "substitute", "alternative", "replace">>

EntryHits(entries, query_lower) ==
    Cardinality({k \in 1..Len(entries) : Contains(query_lower, entries[k])})

\* C19: when no pattern rule holds, classify_query compares the two hit
\* counts, one hit per keyword entry that occurs in the lower-cased question
\* (entries that overlap count each): more data hits give forecast_demand at
\* 0.60, more knowledge hits business_advice at 0.60, equal counts
\* general_question at 0.50, and nothing else.
C19_FallbackByHitCount ==
    (op = "classify_query" /\ \A k \in 1..5 : ~RuleFires(Lower(query))[k]) =>
        LET data == EntryHits(DataEntries, Lower(query))
            knowledge == EntryHits(KnowledgeEntries, Lower(query))
        IN  /\ data > knowledge => result = <<"forecast_demand", 60>>
            /\ knowledge > data => result = <<"business_advice", 60>>
            /\ data = knowledge => result = <<"general_question", 50>>
            /\ result[1] \notin {"inventory_needs", "raw_materials", "supplier_info"}

\* "today" counts for "today" and for "day": two data hits against one
C19_Witness ==
    /\ op = "classify_query"
    /\ \A k \in 1..5 : ~RuleFires(Lower(query))[k]
    /\ Contains(Lower(query), "today")
    /\ EntryHits(DataEntries, Lower(query)) = 2
    /\ EntryHits(KnowledgeEntries, Lower(query)) = 1
    /\ result = <<"forecast_demand", 60>>

\* C20 as stated: a question that matches what.*(do|should).*(we|i).*need
\* and not rule (a) is raw_materials at 0.85 when it holds a word of the
\* materials vocabulary (material, ingredient, flour, eggs, butter, sugar),
\* and inventory_needs at 0.85 when it holds none
C20_NeedWithMaterialsVocabulary ==
    (op = "classify_query" /\ Pattern2(Lower(query)) /\ ~Pattern1(Lower(query))) =>
        IF \E k \in 1..Len(ml_keywords.materials) :
              Contains(Lower(query), ml_keywords.materials[k])
        THEN result = <<"raw_materials", 85>>
        ELSE result = <<"inventory_needs", 85>>

\* C21 as stated: "how many ingredients do we need" is forecast_demand at
\* 0.90, by rule (a)
C21_Original ==
    (op = "classify_query" /\ query = "how many ingredients do we need")
        => result = <<"forecast_demand", 90>>

\* C21, amended: "how many ingredients do we need" names no product and
\* holds no "what", so neither rule (a) nor rule (b) holds for it and the
\* hit counts decide: forecast_demand at 0.60, the data entries having more
\* hits.  A question for which rules (a) and (b) both hold is decided by
\* rule (a): forecast_demand at 0.90.
C21_AmbiguousInput ==
    /\ (op = "classify_query" /\ query = "how many ingredients do we need")
          => /\ ~Pattern1(Lower(query))
             /\ ~Pattern2(Lower(query))
             /\ KeywordScore(ml_keywords, Lower(query))
                    > KeywordScore(llm_keywords, Lower(query))
             /\ result = <<"forecast_demand", 60>>
    /\ (op = "classify_query" /\ Pattern1(Lower(query)) /\ Pattern2(Lower(query)))
          => result = <<"forecast_demand", 90>>

C21_Witness ==
    /\ op = "classify_query"
    /\ query = "how many ingredients do we need"
    /\ result = <<"forecast_demand", 60>>

-----------------------------------------------------------------------------
(* Properties of the forecaster *)

\* C7 as stated: on every row calculate_inventory_needs returns, the
\* recommended production is at least the expected demand, the
\* uncertainty yhat_upper - yhat being non-negative
C7_ProductionCoversDemand ==
    (fop = "calculate_inventory_needs" /\ fres.error = "none") =>
        \A i \in 1..Len(fres.inventory) :
            /\ fres.inventory[i].yhat_upper - fres.inventory[i].yhat >= 0
            /\ fres.inventory[i].recommended_production
                  >= fres.inventory[i].expected_demand

\* a dictionary as a function of its keys
AsMap(d) ==
    [m \in {d[i][1] : i \in 1..Len(d)} |->
        d[CHOOSE i \in 1..Len(d) : d[i][1] = m][2]]

\* the listing as a function of its materials
ListingMap(listing) ==
    [m \in {listing[i].material : i \in 1..Len(listing)} |->
        listing[CHOOSE i \in 1..Len(listing) : listing[i].material = m].quantity_kg]

\* the recipe quantity of a material for a product, 0 when it has none
RecipeQty(product, material) ==
    IF product \in DOMAIN RECIPES /\ DictHas(RECIPES[product], material)
    THEN DictGet(RECIPES[product], material, 0)
    ELSE 0

RECURSIVE MaterialSum(_, _, _, _)
\* the sum over the products keys[i..] of totals * quantity per 100 / 100,
\* in thousandths of a kilogram
MaterialSum(keys, totals, material, i) ==
    IF i > Len(keys) THEN 0
    ELSE totals[i] * RecipeQty(keys[i], material) * 10
            + MaterialSum(keys, totals, material, i + 1)

\* the materials of the recipes of the products that have one
RecipeMaterials(keys) ==
    UNION { {RECIPES[keys[i]][e][1] : e \in 1..Len(RECIPES[keys[i]])} :
            i \in {k \in 1..Len(keys) : keys[k] \in DOMAIN RECIPES} }

Permutations1(n) == {f \in [1..n -> 1..n] : \A i, j \in 1..n : i # j => f[i] # f[j]}

\* C10: get_raw_materials holds one running total per material, the sum
\* over the products with a recipe of (total production / 100) * kg per 100
\* units; the totals are the same for every iteration order of the
\* products; the listed quantity is the accumulated one rounded to 2
\* decimals; totals of 100 for Croissant and Donut give flour 22.0,
\* butter 13.0, eggs 27.0 and sugar 6.0.
C10_MaterialsAccumulate ==
    (fop = "get_raw_materials" /\ fres.error = "none") =>
        LET n == Len(models)
            got == AsMap(fres.materials)
        IN  /\ \A i, j \in 1..Len(fres.materials) :
                  i # j => fres.materials[i][1] # fres.materials[j][1]
            /\ DOMAIN got = RecipeMaterials(models)
            /\ \A m \in DOMAIN got : got[m] = MaterialSum(models, fres.totals, m, 1)
            /\ \A f \in Permutations1(n) :
                  AsMap(Accumulate(<<>>, [i \in 1..n |-> models[f[i]]],
                                   [i \in 1..n |-> fres.totals[f[i]]])) = got
            /\ DOMAIN ListingMap(fres.listing) = DOMAIN got
            /\ \A m \in DOMAIN got : ListingMap(fres.listing)[m] = RoundHalfEven(got[m], 10)
            /\ ({models[i] : i \in 1..n} = {"Croissant", "Donut"}
                    /\ \A i \in 1..n : fres.totals[i] = 100)
                  => ListingMap(fres.listing) =
                        [m \in {"flour", "butter", "eggs", "sugar"} |->
                            CASE m = "flour" -> 2200 [] m = "butter" -> 1300
                              [] m = "eggs" -> 2700 [] m = "sugar" -> 600]

\* Donut before Croissant, 100 units each
C10_Witness ==
    /\ fop = "get_raw_materials"
    /\ fres.error = "none"
    /\ models = <<"Donut", "Croissant">>
    /\ fres.totals = <<100, 100>>
    /\ AsMap(fres.materials)["flour"] = 22000

\* C11 as stated: when get_raw_materials can reach every model (the
\* forecaster is trained, or holds no model), it completes normally,
\* products without a recipe adding nothing; without any recipe product the
\* listing is empty
C11_NoRecipeIsNoError ==
    (fop = "get_raw_materials" /\ (trained \/ Len(models) = 0)) =>
        /\ fres.error = "none"
        /\ (\A i \in 1..Len(models) : models[i] \notin DOMAIN RECIPES)
              => fres.listing = <<>>

\* C12: predict raises NotTrained exactly when trained is false, whatever
\* the models hold, and otherwise ModelNotFound exactly when the product is
\* no key of models; predict leaves models and trained as they are; trained
\* becomes true only by a train or load_models that completes, and never
\* goes back to false.
C12_PredictErrors ==
    /\ [](fop = "predict" =>
            /\ fres.error = "NotTrained" <=> ~trained
            /\ fres.error = "ModelNotFound" <=>
                  (trained /\ \A i \in 1..Len(models) : models[i] # fargs.product_name)
            /\ fres.error \in {"NotTrained", "ModelNotFound", "none"})
    /\ [][/\ fop' = "predict" => (models' = models /\ trained' = trained)
          /\ trained => trained'
          /\ (~trained /\ trained') =>
                (fop' \in {"train", "load_models"} /\ fres'.error = "none")
          /\ (fop' \in {"train", "load_models"} /\ fop = "idle" /\ fres'.error = "none")
                => trained']_vars

\* a model is stored by a train that failed later: predict for it still
\* raises NotTrained
C12_Witness ==
    /\ fop = "predict"
    /\ ~trained
    /\ \E i \in 1..Len(models) : models[i] = fargs.product_name
    /\ fres.error = "NotTrained"

-----------------------------------------------------------------------------
(* The forecaster: any sequence of calls on one instance *)

InitForecaster ==
    /\ RouterInit
    /\ query = ""
    /\ op = "none"
    /\ result = NoResult
    /\ ForecasterInit
    /\ ServiceInit

NextForecaster ==
    \/ \E ps \in DistinctSeqs(ModelProducts, MaxModels) : Train(ps)
    \/ \E ps \in DistinctSeqs(ModelProducts, MaxModels) : \E k \in 1..Len(ps) : TrainFails(ps, k)
    \/ \E ks \in DistinctSeqs(ModelProducts, MaxModels) : LoadModels(ks)
    \/ LoadModelsFails
    \/ \E p \in ModelProducts, d \in 0..MaxDays : Predict(p, d)
    \/ \E p \in ModelProducts, d \in 0..MaxDays, sl \in ServiceLevels :
          CalculateInventoryNeeds(p, d, sl)
    \/ \E d \in 0..MaxDays : GetRawMaterials(d)
    \/ Return

SpecForecaster == InitForecaster /\ [][NextForecaster]_vars

-----------------------------------------------------------------------------
(* Properties of the assistant and of the endpoint *)

\* C18: FreshCastLLM.query never raises, whatever the question: without a
\* client it returns the "not configured" text and the provider is not
\* contacted; with a client, a provider call that raises, or whose response
\* cannot be read, gives the "Error: ..." text, and any other response is
\* returned as it is.
C18_QueryNeverRaises ==
    lres # NoResult =>
        /\ ~lres.raised
        /\ client = None =>
              /\ lres.outcome = "unavailable"
              /\ ~lres.contacted
              /\ lres.value = LLM_NOT_CONFIGURED
        /\ client # None =>
              /\ lres.contacted
              /\ lres.provider \in {"raises", "no_choices"} =>
                    /\ lres.outcome = "error"
                    /\ Len(lres.value) > 7 /\ SubSeq(lres.value, 1, 7) = "Error: "
              /\ lres.provider \notin {"raises", "no_choices"} => lres.outcome = "answer"

\* the provider raised on an empty question and query returned the error text
C18_Witness ==
    /\ lres # NoResult
    /\ lres.outcome = "error"
    /\ lres.provider = "raises"
    /\ lres.messages[Len(lres.messages)] = <<"user", "">>

\* C13: whatever fails behind a question, the forecaster or the assistant,
\* ask_question answers with status 200 and a text for the user.
C13_GracefulFallback ==
    api # NoResult =>
        /\ api.status = 200
        /\ api.answer.ml # NoMl \/ Truthy(api.answer.text)

\* C22: ask_question invokes at most one capability for a question: no
\* response has used_ml and used_llm together, no answer carries the
\* assistant's text appended to a forecast-derived answer, and for a question
\* routed to the forecasting engine the assistant is not called, whether the
\* forecaster answers or raises.
C22_OneCapability ==
    api # NoResult =>
        /\ Len(api.calls) <= 1
        /\ api.status = 500 => lres = NoResult
        /\ api.status = 200 =>
              /\ ~(api.used_ml /\ api.used_llm)
              /\ api.answer.insight = <<>>
              /\ api.used_ml =>
                    /\ api.calls = <<api.answer.ml.kind>>
                    /\ lres = NoResult
              /\ api.used_llm =>
                    /\ api.calls = <<"query">>
                    /\ api.answer.ml = NoMl

\* a question answered by the forecaster's summary alone
C22_Witness ==
    /\ api # NoResult
    /\ api.status = 200
    /\ api.used_ml
    /\ api.calls = <<"get_weekly_summary">>
    /\ Len(api.answer.ml.rows) > 0
    /\ lres = NoResult

\* C23: in every answer of the forecasting engine, the number of days the
\* text reports ("Next N days") is the number of days the figures were
\* computed over.
C23_ReportedDaysAreComputedDays ==
    (api # NoResult /\ api.status = 200 /\ api.used_ml)
        => api.answer.ml.days = api.answer.ml.days_ahead

-----------------------------------------------------------------------------
(* The service: the module is imported, then questions are asked and the
   assistant is called *)

InitApi ==
    /\ RouterInit
    /\ query = ""
    /\ op = "none"
    /\ result = NoResult
    /\ ForecasterInit
    /\ client \in {NewClient(api_key) : api_key \in ApiKeys}
    /\ lres = NoResult
    /\ api = NoResult
    /\ threads = <<>>

NextApi ==
    \/ \E ks \in SavedModels : LoadModels(ks)
    \/ LoadModelsFails
    \/ \E q \in LlmQuestions, c \in LlmContexts, p \in ProviderOutcomes : LlmQuery(q, c, p)
    \/ \E q \in ApiQuestions, p \in ProviderOutcomes : AskQuestion(q, p)
    \/ Reply

SpecApi == InitApi /\ [][NextApi]_vars

-----------------------------------------------------------------------------
(* Properties of concurrent calls *)

\* C17: however the statements of concurrent route, predict,
\* calculate_inventory_needs and get_raw_materials calls interleave, no step
\* writes the keyword tables, the product list, the models or the trained
\* flag, and every call that has finished returned (or raised) what it can
\* return when it runs alone.
C17_ConcurrentCallsAreSafe ==
    /\ [](\A t \in 1..Len(threads) :
            threads[t].pc = "done" => threads[t].ret \in SequentialResults(threads[t].call))
    /\ [][UNCHANGED <<ml_keywords, llm_keywords, products, models, trained>>]_vars

\* a get_raw_materials call finished after a route call had started and
\* while it was still running
C17_Witness ==
    \E t, u \in 1..Len(threads) :
        /\ threads[t].pc = "done"
        /\ threads[t].call.op = "get_raw_materials"
        /\ threads[t].ret.error = "none"
        /\ threads[u].pc = "extract_product"

-----------------------------------------------------------------------------
(* The concurrent calls *)

InitConcurrent ==
    /\ RouterInit
    /\ query = ""
    /\ op = "none"
    /\ result = NoResult
    /\ \E f \in SharedForecasters : models = f.models /\ trained = f.trained
    /\ fop = "idle"
    /\ fargs = NoResult
    /\ fres = NoResult
    /\ client = None
    /\ lres = NoResult
    /\ api = NoResult
    /\ threads = [t \in 1..NumThreads |-> IdleThread]

NextConcurrent ==
    \E t \in 1..NumThreads :
        \/ \E call \in ConcurrentCalls : Begin(t, call)
        \/ StepClassify(t)
        \/ StepExtractProduct(t)
        \/ StepExtractTimePeriod(t)
        \/ StepTrained(t)
        \/ StepLookup(t)
        \/ StepForecast(t)
        \/ StepInventory(t)
        \/ StepFrame(t)

SpecConcurrent == InitConcurrent /\ [][NextConcurrent]_vars

====
